---- MODULE Spec2Model ----
(***************************************************************************)
(* MediAssist (src/MediAssist.py): a Streamlit chat front-end.  The model  *)
(* follows one script run of main() at a time: the first render, a toggle  *)
(* of the search switch, a click on "Clear Chat History", or a submitted   *)
(* question, whose call of get_gemini_response is followed statement by    *)
(* statement (search_web, format_search_results, the prompt template,      *)
(* start_chat, send_message, the two appends to chat_history, the return   *)
(* or the except clause).                                                  *)
(*                                                                         *)
(* Text is a sequence of tokens; concatenation of text is \o.  A JSON      *)
(* object is a function from its keys to its values.                       *)
(***************************************************************************)
EXTENDS Integers, Sequences, FiniteSets, TLC

VARIABLES
    messages,        \* st.session_state.messages: the display history
    chat_history,    \* st.session_state.chat_history: the model context
    search_mode,     \* st.session_state.search_mode
    pc,              \* position of the running script in main / get_gemini_response
    user_prompt,     \* main: user_prompt (<<>> when no question was submitted)
    with_search,     \* get_gemini_response: with_search
    search_results,  \* get_gemini_response: search_results
    search_context,  \* get_gemini_response: search_context
    full_prompt,     \* get_gemini_response: full_prompt
    chat,            \* the ChatSession returned by start_chat: its history
    response,        \* the response returned by send_message
    exc,             \* the exception caught at line 154: str(e)
    full_response,   \* main: full_response (<<>> before a turn has returned)
    \* history variables, written and never read by the program's actions
    turns,           \* questions submitted so far
    last_event,      \* the kind of the latest script run
    fault,           \* where the latest turn raised: "none" when it did not
    search_failed,   \* whether the latest turn's search call failed
    calls,           \* outbound calls of the latest turn, in order
    exchanges,       \* per successful turn since the last clear: what the
                     \* provider received and what it replied
    pre_messages,    \* messages at the start of the latest script run
    pre_history      \* chat_history at the start of the latest script run

vars == <<messages, chat_history, search_mode, pc, user_prompt, with_search,
          search_results, search_context, full_prompt, chat, response, exc, full_response,
          turns, last_event, fault, search_failed, calls, exchanges,
          pre_messages, pre_history>>

\* ---------------------------------------------------------------- bounds

MaxTurns == 2
MaxOrganicLen == 6

\* ------------------------------------------------------------------ text

Min(a, b) == IF a < b THEN a ELSE b

StartsWith(s, p) == Len(s) >= Len(p) /\ SubSeq(s, 1, Len(p)) = p

Contains(s, p) ==
    \E i \in 1..(Len(s) - Len(p) + 1) : SubSeq(s, i, i + Len(p) - 1) = p

\* dict.get(key, default)
Get(d, k, default) == IF k \in DOMAIN d THEN d[k] ELSE default

Marker == <<"Medical", "Search", "Results">>

Greeting == <<"Hello! I'm MediAssist, your medical AI assistant.">>
IntroMessage == [role |-> "assistant", content |-> Greeting]

ErrorPrefix == <<"An error occurred:">>

\* ----------------------------------------------------------- environment

\* the questions a user submits: chat_input returns a non-empty string
Queries == {<<"q1">>, <<"tell me about">> \o Marker}

\* str(e) of the exceptions the two providers' clients raise
SearchErrors == {<<"e_conn">>, <<"e_url">> \o Marker}
LLMErrors == {<<"e_llm">>}
TextError == <<"e_text">>
TypeError == <<"e_type">>

\* the replies of the LLM provider
Replies == {<<"r1">>, <<"r2">>}

EntryPool ==
    { [title |-> "t1", link |-> "l1", snippet |-> "s1"],
      [title |-> "t2", link |-> "l2", snippet |-> "s2"],
      [link |-> "l3"] }

RECURSIVE SeqsUpTo(_, _)
SeqsUpTo(S, n) ==
    IF n = 0 THEN {<<>>}
    ELSE LET shorter == SeqsUpTo(S, n - 1)
         IN shorter \cup {Append(s, x) : s \in {t \in shorter : Len(t) = n - 1}, x \in S}

AnswerBoxes == { [title |-> "abt", answer |-> "aba", snippet |-> "abs"], [answer |-> "aba"] }
KnowledgeGraphs == { [title |-> "kgt", description |-> "kgd"] }

\* union of two JSON objects with disjoint keys
Merge(f, g) == [k \in (DOMAIN f) \cup (DOMAIN g) |-> IF k \in DOMAIN f THEN f[k] ELSE g[k]]

NoKeys == [k \in {} |-> k]

OrganicParts(n) == {NoKeys} \cup {[organic |-> s] : s \in SeqsUpTo(EntryPool, n)}
AnswerParts(boxes) == {NoKeys} \cup {[answerBox |-> a] : a \in boxes}
KnowledgeParts(graphs) == {NoKeys} \cup {[knowledgeGraph |-> g] : g \in graphs}

\* the bodies of a 200 answer of the search provider
ResultBodies(n, boxes, graphs) ==
    { Merge(o, Merge(a, g)) :
        o \in OrganicParts(n), a \in AnswerParts(boxes), g \in KnowledgeParts(graphs) }

\* the body of an answer with an error status: the provider's own error report
ErrorBodies == { [message |-> "Unauthorized.", statusCode |-> 403] }

\* What requests.post and response.json() can do:
\*   raise      requests.post raises (transport failure)
\*   notjson    an answer whose body is not JSON: response.json() raises
\*   json       an answer whose body is a JSON object
\*   null       an answer whose body is the JSON value null
HttpOutcomes(n, boxes, graphs) ==
    {[kind |-> "raise", e |-> e] : e \in SearchErrors}
    \cup {[kind |-> "notjson", status |-> 500, e |-> <<"e_json">>]}
    \cup {[kind |-> "json", status |-> 200, body |-> b] : b \in ResultBodies(n, boxes, graphs)}
    \cup {[kind |-> "json", status |-> 403, body |-> b] : b \in ErrorBodies}
    \cup {[kind |-> "null", status |-> 200]}

\* the search call failed: no answer, an unreadable one, or an error status
SearchFailed(http) == http.kind \in {"raise", "notjson"} \/ http.status >= 400

\* ------------------------------------------------- search_web (49-64)

\* the dict search_web returns for what requests did: response.json() of any
\* answer whatever its status, {"error": str(e)} when post or json() raised
search_web(http) ==
    CASE http.kind \in {"raise", "notjson"} -> [type |-> "object", obj |-> [error |-> http.e]]
      [] http.kind = "json" -> [type |-> "object", obj |-> http.body]
      [] OTHER -> [type |-> "null", obj |-> NoKeys]

\* ------------------------------------- format_search_results (67-93)

MaxOrganic == 5

\* f"{i}." for the i of enumerate(..., 1)
NumTok(i) == <<"1.", "2.", "3.", "4.", "5.", "6.", "7.", "8.", "9.">>[i]

\* a variant that keeps every entry the provider returned
FirstOrganicUnsliced(organic) == organic

\* results["organic"][:5]
FirstOrganic(organic) == SubSeq(organic, 1, Min(Len(organic), MaxOrganic))

FormatEntry(i, result) ==
    << NumTok(i), Get(result, "title", "No title"),
       "URL:", Get(result, "link", "No link"),
       "Description:", Get(result, "snippet", "No description"), "\n\n" >>

RECURSIVE FormatOrganic(_, _)
FormatOrganic(rs, i) ==
    IF Len(rs) = 0 THEN <<>>
    ELSE FormatEntry(i, Head(rs)) \o FormatOrganic(Tail(rs), i + 1)

FormatAnswerBox(answer_box) ==
    << "Featured Medical Answer:", Get(answer_box, "title", ""),
       Get(answer_box, "answer", ""), Get(answer_box, "snippet", ""), "\n\n" >>

FormatKnowledgeGraph(kg) ==
    << "Medical Knowledge:", Get(kg, "title", ""), Get(kg, "description", ""), "\n\n" >>

SearchHeader == Marker \o <<":", "\n\n">>

\* `"error" in results` raises TypeError when results is not a container
FormatRaises(results) == results.type # "object"

\* a variant that writes the header before it looks for the error field
format_search_results_header_first(results) ==
    LET r == results.obj IN
    SearchHeader \o (IF "error" \in DOMAIN r
                     THEN <<"Error performing search:">> \o r["error"] ELSE <<>>)

format_search_results(results) ==
    LET r == results.obj IN
    IF "error" \in DOMAIN r
    THEN <<"Error performing search:">> \o r["error"]
    ELSE SearchHeader
         \o (IF "organic" \in DOMAIN r
             THEN FormatOrganic(FirstOrganic(r["organic"]), 1) ELSE <<>>)
         \o (IF "answerBox" \in DOMAIN r THEN FormatAnswerBox(r["answerBox"]) ELSE <<>>)
         \o (IF "knowledgeGraph" \in DOMAIN r
             THEN FormatKnowledgeGraph(r["knowledgeGraph"]) ELSE <<>>)

\* --------------------------------- the prompt templates (99-142)

MedicalContext == <<"You are MediAssist, a helpful and compassionate medical AI assistant.",
                    "Important guidelines: 1. ... 7.">>

SearchPrompt(prompt, context) ==
    MedicalContext \o <<"The user query is:">> \o prompt
    \o <<"Here are relevant", "medical", "search", "results", "from the web:">>
    \o context
    \o <<"Please provide a helpful response based on these search results and your knowledge.",
         "If the search results are relevant, incorporate that information.",
         "Always cite the sources if you use information from the search results.",
         "Remember to follow the medical guidelines provided above.">>

PlainPrompt(prompt) ==
    MedicalContext \o <<"The user query is:">> \o prompt
    \o <<"Please provide a helpful response based on your medical knowledge.",
         "Remember to follow the medical guidelines provided above.">>

\* the entries appended to the two histories
DisplayEntry(role, content) == [role |-> role, content |-> content]
ModelEntry(role, text) == [role |-> role, parts |-> <<text>>]

NoResults == [type |-> "none", obj |-> NoKeys]
NoResponse == [got |-> FALSE, text_ok |-> FALSE, text |-> <<>>]

\* ------------------------------------------------------------- Init

\* initialize_session_state (9-19), before the first script run has rendered
Init ==
    /\ messages = <<>>
    /\ chat_history = <<>>
    /\ search_mode = FALSE
    /\ pc = "load"
    /\ user_prompt = <<>>
    /\ with_search = FALSE
    /\ search_results = NoResults
    /\ search_context = <<>>
    /\ full_prompt = <<>>
    /\ chat = <<>>
    /\ response = NoResponse
    /\ exc = <<>>
    /\ full_response = <<>>
    /\ turns = 0
    /\ last_event = "none"
    /\ fault = "none"
    /\ search_failed = FALSE
    /\ calls = <<>>
    /\ exchanges = <<>>
    /\ pre_messages = <<>>
    /\ pre_history = <<>>

locals == <<user_prompt, with_search, search_results, search_context, full_prompt, chat, response,
            exc, full_response>>

\* lines 204-209: the introduction message, appended when messages is empty
WithIntro(msgs) == IF Len(msgs) = 0 THEN <<IntroMessage>> ELSE msgs

\* a script run that starts from the idle page forgets the previous run's locals
FreshLocals ==
    /\ user_prompt' = <<>>
    /\ with_search' = FALSE
    /\ search_results' = NoResults
    /\ search_context' = <<>>
    /\ full_prompt' = <<>>
    /\ chat' = <<>>
    /\ response' = NoResponse
    /\ exc' = <<>>
    /\ full_response' = <<>>

\* ------------------------------------------------ main: script runs

\* the first script run: no widget has a value yet
Load ==
    /\ pc = "load"
    /\ messages' = WithIntro(messages)
    /\ pc' = "idle"
    /\ last_event' = "load"
    /\ pre_messages' = messages
    /\ pre_history' = chat_history
    /\ UNCHANGED <<chat_history, search_mode, locals, turns, fault, search_failed,
                   calls, exchanges>>

\* lines 175-179: the user flips the toggle, the script reruns
Toggle ==
    /\ pc = "idle"
    /\ \E search_toggle \in BOOLEAN :
         /\ search_toggle # search_mode
         /\ search_mode' = search_toggle
    /\ messages' = WithIntro(messages)
    /\ last_event' = "toggle"
    /\ pre_messages' = messages
    /\ pre_history' = chat_history
    /\ FreshLocals
    /\ UNCHANGED <<chat_history, pc, turns, fault, search_failed, calls, exchanges>>

\* lines 182-185 and 204-209: the user clicks "Clear Chat History"
ClearedMessages == <<>>
\* a variant of the clear that leaves the model context alone
ClearedHistoryKept == chat_history
ClearedHistory == <<>>

Clear ==
    /\ pc = "idle"
    /\ messages' = WithIntro(ClearedMessages)
    /\ chat_history' = ClearedHistory
    /\ exchanges' = <<>>
    /\ last_event' = "clear"
    /\ pre_messages' = messages
    /\ pre_history' = chat_history
    /\ FreshLocals
    /\ UNCHANGED <<search_mode, pc, turns, fault, search_failed, calls>>

\* lines 221-246: a question is submitted; the user message is appended and
\* get_gemini_response is entered with with_search = search_mode
Submit ==
    /\ pc = "idle"
    /\ turns < MaxTurns
    /\ \E q \in Queries :
         /\ user_prompt' = q
         /\ messages' = Append(WithIntro(messages), DisplayEntry("user", q))
    /\ with_search' = search_mode
    /\ search_results' = NoResults
    /\ search_context' = <<>>
    /\ full_prompt' = <<>>
    /\ chat' = <<>>
    /\ response' = NoResponse
    /\ exc' = <<>>
    /\ full_response' = <<>>
    /\ turns' = turns + 1
    /\ last_event' = "turn"
    /\ fault' = "none"
    /\ search_failed' = FALSE
    /\ calls' = <<>>
    /\ pre_messages' = messages
    /\ pre_history' = chat_history
    /\ pc' = "call"
    /\ UNCHANGED <<chat_history, search_mode, exchanges>>

\* ------------------------------------ get_gemini_response (96-155)

session == <<messages, chat_history, search_mode>>
snapshots == <<pre_messages, pre_history, last_event, turns>>

\* a variant that searches whatever the flag says
ShouldSearchAlways(ws, query) == TRUE

\* line 115: `if with_search and query`
ShouldSearch(ws, query) == ws /\ Len(query) > 0

\* line 245: query is the prompt when search_mode is set, None otherwise
QueryArg == IF with_search THEN user_prompt ELSE <<>>

\* line 116: search_results = search_web(query)
Search(outcomes) ==
    /\ pc = "call"
    /\ ShouldSearch(with_search, QueryArg)
    /\ \E http \in outcomes :
         /\ search_results' = search_web(http)
         /\ search_failed' = SearchFailed(http)
    /\ calls' = Append(calls, "search")
    /\ pc' = "format"
    /\ UNCHANGED <<session, snapshots, user_prompt, with_search, search_context,
                   full_prompt, chat, response, exc, full_response, fault, exchanges>>

\* lines 117-132: search_context and the search-augmented prompt; a raise of
\* format_search_results goes to the except clause
FormatAndBuild ==
    /\ pc = "format"
    /\ \/ /\ FormatRaises(search_results)
          /\ exc' = TypeError
          /\ fault' = "format"
          /\ pc' = "except"
          /\ UNCHANGED <<search_context, full_prompt>>
       \/ /\ ~FormatRaises(search_results)
          /\ search_context' = format_search_results(search_results)
          /\ full_prompt' = SearchPrompt(user_prompt, search_context')
          /\ pc' = "start_chat"
          /\ UNCHANGED <<exc, fault>>
    /\ UNCHANGED <<session, snapshots, user_prompt, with_search, search_results,
                   chat, response, full_response, search_failed, calls, exchanges>>

\* lines 133-142: the prompt without search
BuildPlain ==
    /\ pc = "call"
    /\ ~ShouldSearch(with_search, QueryArg)
    /\ full_prompt' = PlainPrompt(user_prompt)
    /\ pc' = "start_chat"
    /\ UNCHANGED <<session, snapshots, user_prompt, with_search, search_results,
                   search_context, chat, response, exc, full_response, fault,
                   search_failed, calls, exchanges>>

\* line 145: chat = model.start_chat(history=st.session_state.chat_history);
\* the session keeps its own copy of the history, or the call raises
StartChat ==
    /\ pc = "start_chat"
    /\ calls' = Append(calls, "start_chat")
    /\ \/ /\ chat' = chat_history
          /\ pc' = "send"
          /\ UNCHANGED <<exc, fault>>
       \/ /\ \E e \in LLMErrors : exc' = e
          /\ fault' = "start_chat"
          /\ pc' = "except"
          /\ UNCHANGED chat
    /\ UNCHANGED <<session, snapshots, user_prompt, with_search, search_results,
                   search_context, full_prompt, response, full_response,
                   search_failed, exchanges>>

\* line 146: response = chat.send_message(full_prompt): the provider answers
\* with a reply whose text can be read, with one whose .text raises (no valid
\* part), or the call raises
SendMessage ==
    /\ pc = "send"
    /\ calls' = Append(calls, "send_message")
    /\ \/ /\ \E r \in Replies : response' = [got |-> TRUE, text_ok |-> TRUE, text |-> r]
          /\ pc' = "append_user"
          /\ UNCHANGED <<exc, fault>>
       \/ /\ response' = [got |-> TRUE, text_ok |-> FALSE, text |-> <<>>]
          /\ pc' = "append_user"
          /\ UNCHANGED <<exc, fault>>
       \/ /\ \E e \in LLMErrors : exc' = e
          /\ fault' = "send_message"
          /\ pc' = "except"
          /\ UNCHANGED response
    /\ UNCHANGED <<session, snapshots, user_prompt, with_search, search_results,
                   search_context, full_prompt, chat, full_response,
                   search_failed, exchanges>>

\* line 149: chat_history.append({"role": "user", "parts": [prompt]})
AppendUser ==
    /\ pc = "append_user"
    /\ chat_history' = Append(chat_history, ModelEntry("user", user_prompt))
    /\ pc' = "append_model"
    /\ UNCHANGED <<messages, search_mode, snapshots, locals, fault, search_failed,
                   calls, exchanges>>

\* line 150: chat_history.append({"role": "model", "parts": [response.text]});
\* response.text is evaluated first and may raise
AppendModel ==
    /\ pc = "append_model"
    /\ \/ /\ response.text_ok
          /\ chat_history' = Append(chat_history, ModelEntry("model", response.text))
          /\ pc' = "return"
          /\ UNCHANGED <<exc, fault>>
       \/ /\ ~response.text_ok
          /\ exc' = TextError
          /\ fault' = "text"
          /\ pc' = "except"
          /\ UNCHANGED chat_history
    /\ UNCHANGED <<messages, search_mode, snapshots, user_prompt, with_search,
                   search_results, search_context, full_prompt, chat, response,
                   full_response, search_failed, calls, exchanges>>

\* the function's own locals end with the call
EndCall ==
    /\ search_results' = NoResults
    /\ search_context' = <<>>
    /\ full_prompt' = <<>>
    /\ chat' = <<>>
    /\ response' = NoResponse
    /\ exc' = <<>>

\* line 152: return response.text
ReturnText ==
    /\ pc = "return"
    /\ full_response' = response.text
    /\ exchanges' = Append(exchanges, [sent |-> full_prompt, reply |-> response.text])
    /\ pc' = "returned"
    /\ EndCall
    /\ UNCHANGED <<session, snapshots, user_prompt, with_search, fault,
                   search_failed, calls>>

\* lines 154-155: return f"An error occurred: {str(e)}"
ErrorString(e) == ErrorPrefix \o e

Except ==
    /\ pc = "except"
    /\ full_response' = ErrorString(exc)
    /\ pc' = "returned"
    /\ EndCall
    /\ UNCHANGED <<session, snapshots, user_prompt, with_search, fault,
                   search_failed, calls, exchanges>>

\* a variant that keeps error strings out of the transcript
ShownUnlessError(msgs, text) ==
    IF StartsWith(text, ErrorPrefix) THEN msgs
    ELSE Append(msgs, DisplayEntry("assistant", text))

\* lines 248-251: the returned string is shown and appended as the assistant's
Shown(msgs, text) == Append(msgs, DisplayEntry("assistant", text))

Finish ==
    /\ pc = "returned"
    /\ messages' = Shown(messages, full_response)
    /\ pc' = "idle"
    /\ UNCHANGED <<chat_history, search_mode, snapshots, locals, fault,
                   search_failed, calls, exchanges>>

\* ------------------------------------------------- specifications

\* what the search provider answers within a session
SessionOutcomes == HttpOutcomes(1, {}, {})

Next ==
    \/ Load
    \/ Toggle
    \/ Clear
    \/ Submit
    \/ Search(SessionOutcomes)
    \/ FormatAndBuild
    \/ BuildPlain
    \/ StartChat
    \/ SendMessage
    \/ AppendUser
    \/ AppendModel
    \/ ReturnText
    \/ Except
    \/ Finish

Spec == Init /\ [][Next]_vars

\* format_search_results and the prompt templates on their own: a question
\* has just been submitted from the first page, with search on or off, and
\* the search provider answers with any of the bodies up to MaxOrganicLen
\* organic entries
PromptInit ==
    /\ \E q \in Queries :
         /\ user_prompt = q
         /\ messages = <<IntroMessage, DisplayEntry("user", q)>>
    /\ chat_history = <<>>
    /\ search_mode \in BOOLEAN
    /\ with_search = search_mode
    /\ pc = "call"
    /\ search_results = NoResults
    /\ search_context = <<>>
    /\ full_prompt = <<>>
    /\ chat = <<>>
    /\ response = NoResponse
    /\ exc = <<>>
    /\ full_response = <<>>
    /\ turns = 1
    /\ last_event = "turn"
    /\ fault = "none"
    /\ search_failed = FALSE
    /\ calls = <<>>
    /\ exchanges = <<>>
    /\ pre_messages = <<IntroMessage>>
    /\ pre_history = <<>>

AllOutcomes == HttpOutcomes(MaxOrganicLen, AnswerBoxes, KnowledgeGraphs)

PromptNext ==
    \/ Search(AllOutcomes)
    \/ FormatAndBuild
    \/ BuildPlain

SpecPrompt == PromptInit /\ [][PromptNext]_vars

\* ------------------------------------------------------------ claims

Range(s) == {s[i] : i \in DOMAIN s}
Count(s, x) == Cardinality({i \in DOMAIN s : s[i] = x})

\* C1: between script runs, chat_history is exactly twice as long as the number
\* of exchanges completed without error since the last clear, and no entry of
\* it is the greeting.
C1_HistoryTwiceExchanges ==
    pc = "idle" =>
        /\ Len(chat_history) = 2 * Len(exchanges)
        /\ \A i \in DOMAIN chat_history :
             ~(chat_history[i].role = "assistant" /\ chat_history[i].parts = <<Greeting>>)

\* C2: when start_chat, send_message or the read of response.text raises,
\* get_gemini_response returns a string starting with "An error occurred:" and
\* chat_history is what it was before the call.
C2_FailureLeavesHistory ==
    (pc = "returned" /\ fault \in {"start_chat", "send_message", "text"}) =>
        /\ StartsWith(full_response, ErrorPrefix)
        /\ chat_history = pre_history

\* C3: after the script run of a click on "Clear Chat History", the display
\* history is exactly the greeting and the model context is empty.
C3_ClearResets ==
    (pc = "idle" /\ last_event = "clear") =>
        /\ messages = <<IntroMessage>>
        /\ chat_history = <<>>

C3_Witness ==
    /\ pc = "idle"
    /\ last_event = "clear"
    /\ Len(pre_messages) >= 3
    /\ Len(pre_history) >= 1
    /\ messages = <<IntroMessage>>

\* C4: between turns the display history is the greeting followed by the pairs
\* of the model context: one entry more, the k-th entries carrying the same
\* text and the corresponding role.
C4_Aligned ==
    pc = "idle" =>
        /\ Len(messages) = Len(chat_history) + 1
        /\ \A k \in DOMAIN chat_history :
             /\ chat_history[k].parts = <<messages[k + 1].content>>
             /\ chat_history[k].role = (IF k % 2 = 1 THEN "user" ELSE "model")
             /\ messages[k + 1].role = (IF k % 2 = 1 THEN "user" ELSE "assistant")

\* C5: the history handed to the provider at the start of a turn is, entry for
\* entry, the messages the provider received and the replies it returned in the
\* successful turns since the last clear.
C5_HistoryIsWhatProviderSaw ==
    pc = "send" =>
        /\ Len(chat) = 2 * Len(exchanges)
        /\ \A i \in DOMAIN exchanges :
             /\ chat[2 * i - 1] = ModelEntry("user", exchanges[i].sent)
             /\ chat[2 * i] = ModelEntry("model", exchanges[i].reply)

\* C6: when the search call of a turn fails, search_web returns a result with
\* only the error field, the turn goes on to invoke the LLM, and it ends with a
\* returned string.
C6_SearchFailureDegrades ==
    /\ (pc = "format" /\ search_failed) =>
          /\ search_results.type = "object"
          /\ DOMAIN search_results.obj = {"error"}
    /\ (pc = "returned" /\ search_failed) =>
          /\ "start_chat" \in Range(calls)
          /\ Len(full_response) > 0

\* C7 as stated: the prompt contains "Medical Search Results" exactly when a
\* search block was passed to the builder.
C7_MarkerIffSearch ==
    pc = "start_chat" => (Contains(full_prompt, Marker) <=> with_search)

HasError(results) == results.type = "object" /\ "error" \in DOMAIN results.obj

\* C7 as amended: the prompt contains "Medical Search Results" when the search
\* block is that of a result without an error field; without a search block, or
\* with the error line of a failed search, it contains it only when the user's
\* question or the error text does.
C7_MarkerIffResults ==
    pc = "start_chat" =>
        (Contains(full_prompt, Marker) <=>
            \/ (with_search /\ ~HasError(search_results))
            \/ Contains(user_prompt, Marker)
            \/ (with_search /\ HasError(search_results)
                  /\ Contains(search_results.obj["error"], Marker)))

C7_Witness ==
    /\ pc = "start_chat"
    /\ with_search
    /\ HasError(search_results)
    /\ search_context = <<"Error performing search:", "e_conn">>
    /\ ~Contains(full_prompt, Marker)

\* what format_search_results was given, and what it has to show
Organic(results) ==
    IF "organic" \in DOMAIN results.obj THEN results.obj["organic"] ELSE <<>>

\* the places of search_context where an organic entry starts: its number,
\* its title, then the URL label
EntryStarts(text) == {p \in 1..(Len(text) - 6) : text[p + 2] = "URL:" /\ text[p + 4] = "Description:"}

Places(text, tok) == {p \in DOMAIN text : text[p] = tok}

\* C8: for a result without an error and with n organic entries, the block has
\* exactly min(n, 5) organic entries, the first min(n, 5) of the provider's
\* list in their order, numbered from 1, all before the answer-box block, which
\* is before the knowledge-graph block.
C8_FirstFiveInOrder ==
    (pc = "start_chat" /\ with_search /\ ~HasError(search_results)) =>
        LET organic == Organic(search_results)
            m == Min(Len(organic), 5)
            starts == EntryStarts(search_context)
            boxes == Places(search_context, "Featured Medical Answer:")
            graphs == Places(search_context, "Medical Knowledge:")
        IN /\ Cardinality(starts) = m
           /\ \A i \in 1..m :
                \E p \in starts :
                   /\ Cardinality({q \in starts : q < p}) = i - 1
                   /\ search_context[p] = NumTok(i)
                   /\ search_context[p + 1] = Get(organic[i], "title", "No title")
                   /\ search_context[p + 3] = Get(organic[i], "link", "No link")
                   /\ search_context[p + 5] = Get(organic[i], "snippet", "No description")
           /\ Cardinality(boxes) = (IF "answerBox" \in DOMAIN search_results.obj THEN 1 ELSE 0)
           /\ Cardinality(graphs) = (IF "knowledgeGraph" \in DOMAIN search_results.obj THEN 1 ELSE 0)
           /\ \A p \in starts, b \in boxes : p < b
           /\ \A p \in starts, g \in graphs : p < g
           /\ \A b \in boxes, g \in graphs : b < g

C8_Witness ==
    /\ pc = "start_chat"
    /\ with_search
    /\ ~HasError(search_results)
    /\ Len(Organic(search_results)) > 5
    /\ Cardinality(EntryStarts(search_context)) = 5
    /\ "answerBox" \in DOMAIN search_results.obj
    /\ "knowledgeGraph" \in DOMAIN search_results.obj
    /\ Organic(search_results)[1] # Organic(search_results)[2]

\* the calls of the turn that is running, or has just returned
C9_Calls ==
    pc \notin {"load", "idle"} =>
        /\ Count(calls, "search") <= (IF search_mode THEN 1 ELSE 0)
        /\ pc = "returned" => Count(calls, "search") = (IF search_mode THEN 1 ELSE 0)
        /\ Count(calls, "send_message") <= 1
        /\ \A i, j \in DOMAIN calls :
             (calls[i] = "search" /\ calls[j] \in {"start_chat", "send_message"}) => i < j
        /\ pc \in {"call", "format"} => Range(calls) \subseteq {"search"}

\* C9: in a turn the search provider is called once when the search flag is
\* set at submission and not at all otherwise, the search call is over before
\* the LLM call begins, the LLM is called at most once, and a turn starts only
\* when no other is running.
C9_CallsPerTurn ==
    /\ []C9_Calls
    /\ [][turns' # turns => (pc = "idle" /\ pc' = "call" /\ calls' = <<>>
                               /\ with_search' = search_mode /\ search_mode' = search_mode)]_vars
    /\ [][pc # "idle" => search_mode' = search_mode]_vars

C9_Witness ==
    /\ pc = "returned"
    /\ search_mode
    /\ calls = <<"search", "start_chat", "send_message">>
    /\ fault = "none"

\* C10: between script runs the display history is the greeting followed by
\* alternating user and assistant entries; a turn, successful or not, has
\* appended one user entry and then one assistant entry, the reply or the error
\* string; a toggle changes neither history; only a clear shortens the display.
C10_DisplayShape ==
    pc = "idle" =>
        /\ Len(messages) % 2 = 1
        /\ messages[1] = IntroMessage
        /\ \A i \in 2..Len(messages) :
             messages[i].role = (IF i % 2 = 0 THEN "user" ELSE "assistant")
        /\ last_event = "turn" =>
             /\ messages = pre_messages \o <<DisplayEntry("user", user_prompt),
                                             DisplayEntry("assistant", full_response)>>
             /\ fault # "none" => StartsWith(full_response, ErrorPrefix)
             /\ fault = "none" => full_response \in Replies
        /\ last_event = "toggle" => (messages = pre_messages /\ chat_history = pre_history)
        /\ last_event # "clear" => Len(messages) >= Len(pre_messages)

C10_Witness ==
    /\ pc = "idle"
    /\ last_event = "turn"
    /\ fault = "send_message"
    /\ Len(messages) = 5
    /\ messages[3].content \in Replies
    /\ StartsWith(messages[5].content, ErrorPrefix)

====
